---- MODULE Spec2Model ----
(***************************************************************************)
(* canvas-font-metrics: the measurement engine of src/webpack.config.js    *)
(* (lines 23-284, the library's index.js): the instance cache, the backup  *)
(* face registrar, the readiness waits, the options merge and the lazy     *)
(* width cache, as a state machine.                                        *)
(*                                                                         *)
(* JavaScript strings are sequences of one-character strings, so that the  *)
(* template literals of getId and insertblankFont are real concatenations. *)
(* JavaScript values are records [t, n, d, s, o]: t is the type tag, n/d a *)
(* number as a reduced fraction, s a string (or a function's name), o the  *)
(* own properties of an object in insertion order.                         *)
(*                                                                         *)
(* Spec is a page that calls the factory several times, concurrently, and  *)
(* measures widths; SpecMetrics is a page that builds one instance, on a   *)
(* canvas with or without bounding-box metrics, and measures with it;      *)
(* SpecGlyphs is a page that builds one instance and lists its glyphs.     *)
(***************************************************************************)
EXTENDS Integers, Sequences, FiniteSets, TLC

\* ------------------------------------------------------------------------
\* Bounds of the model
\* ------------------------------------------------------------------------

\* number of CanvasFontMetrics calls made over the life of the page
MaxRequests == 2

\* number of measureWidth calls made over the life of the page
MaxMeasureCalls == 2

\* number of getGlyphs calls made on a Metrics object
MaxGlyphCalls == 2

\* number of measureText calls made over the life of the page
MaxTextCalls == 2

\* ------------------------------------------------------------------------
\* JavaScript values
\* ------------------------------------------------------------------------

Undefined == [t |-> "undefined", n |-> 0, d |-> 1, s |-> <<>>, o |-> <<>>]

Null == [t |-> "null", n |-> 0, d |-> 1, s |-> <<>>, o |-> <<>>]

NaN == [t |-> "nan", n |-> 0, d |-> 1, s |-> <<>>, o |-> <<>>]

Num(i) == [t |-> "number", n |-> i, d |-> 1, s |-> <<>>, o |-> <<>>]

Str(chars) == [t |-> "string", n |-> 0, d |-> 1, s |-> chars, o |-> <<>>]

Obj(props) == [t |-> "object", n |-> 0, d |-> 1, s |-> <<>>, o |-> props]

Fn(name) == [t |-> "function", n |-> 0, d |-> 1, s |-> name, o |-> <<>>]

Prop(key, value) == [k |-> key, v |-> value]

RECURSIVE Gcd(_, _)
Gcd(a, b) == IF b = 0 THEN a ELSE Gcd(b, a % b)

Abs(i) == IF i < 0 THEN 0 - i ELSE i

\* the number a / b, a and b integers, b > 0
Frac(a, b) ==
    IF a = 0 THEN [t |-> "number", n |-> 0, d |-> 1, s |-> <<>>, o |-> <<>>]
    ELSE LET g == Gcd(Abs(a), b)
         IN  [t |-> "number", n |-> a \div g, d |-> b \div g, s |-> <<>>, o |-> <<>>]

\* ToBoolean: the values `!v` turns into true
Falsy(v) ==
    \/ v.t \in {"undefined", "null", "nan"}
    \/ v.t = "number" /\ v.n = 0
    \/ v.t = "string" /\ v.s = <<>>

\* the decimal digits of a natural number
Digit(i) == <<"0", "1", "2", "3", "4", "5", "6", "7", "8", "9">>[i + 1]

RECURSIVE Digits(_)
Digits(i) == IF i < 10 THEN <<Digit(i)>> ELSE Digits(i \div 10) \o <<Digit(i % 10)>>

\* ToString, as a template literal `${v}` applies it (integers only)
ToStr(v) ==
    CASE v.t = "string" -> v.s
      [] v.t = "number" -> IF v.n < 0 THEN <<"-">> \o Digits(0 - v.n) ELSE Digits(v.n)
      [] v.t = "undefined" -> <<"u", "n", "d", "e", "f", "i", "n", "e", "d">>
      [] v.t = "null" -> <<"n", "u", "l", "l">>
      [] v.t = "nan" -> <<"N", "a", "N">>
      [] OTHER -> <<"[", "o", "b", "j", "e", "c", "t", " ", "O", "b", "j", "e", "c", "t", "]">>

\* obj[key] on own properties: the value, or undefined
HasOwn(obj, key) == \E i \in 1..Len(obj.o) : obj.o[i].k = key

Get(obj, key) ==
    IF HasOwn(obj, key)
    THEN obj.o[CHOOSE i \in 1..Len(obj.o) : obj.o[i].k = key].v
    ELSE Undefined

\* obj[key] = value: an existing key keeps its place, a new key is appended
Set(obj, key, value) ==
    IF HasOwn(obj, key)
    THEN Obj([i \in 1..Len(obj.o) |->
                 IF obj.o[i].k = key THEN Prop(key, value) ELSE obj.o[i]])
    ELSE Obj(Append(obj.o, Prop(key, value)))

\* { ...target, ...source }: spreading null or undefined adds nothing
RECURSIVE SpreadFrom(_, _, _)
SpreadFrom(target, source, i) ==
    IF i > Len(source.o) THEN target
    ELSE SpreadFrom(Set(target, source.o[i].k, source.o[i].v), source, i + 1)

Spread(target, source) == SpreadFrom(target, source, 1)

\* JSON.stringify: properties in insertion order, undefined-valued ones left out
RECURSIVE JSONstringify(_)
RECURSIVE JSONprops(_, _, _)
JSONprops(props, i, first) ==
    IF i > Len(props) THEN <<>>
    ELSE IF props[i].v.t \in {"undefined", "function"}
         THEN JSONprops(props, i + 1, first)
         ELSE (IF first THEN <<>> ELSE <<",">>)
              \o <<"\"">> \o props[i].k \o <<"\"", ":">>
              \o JSONstringify(props[i].v)
              \o JSONprops(props, i + 1, FALSE)

JSONstringify(v) ==
    CASE v.t = "object" -> <<"{">> \o JSONprops(v.o, 1, TRUE) \o <<"}">>
      [] v.t = "string" -> <<"\"">> \o v.s \o <<"\"">>
      [] v.t = "number" -> ToStr(v)
      [] OTHER -> <<"n", "u", "l", "l">>

\* a / b of JavaScript, for the operands the library divides: numbers with
\* a non-zero divisor give the quotient, undefined or NaN operands give NaN
Div(a, b) ==
    IF a.t = "number" /\ b.t = "number" /\ b.n # 0
    THEN IF b.n > 0 THEN Frac(a.n * b.d, a.d * b.n)
                    ELSE Frac(0 - a.n * b.d, a.d * (0 - b.n))
    ELSE NaN

\* a > b of JavaScript: false as soon as an operand converts to NaN
Gt(a, b) == a.t = "number" /\ b.t = "number" /\ a.n * b.d > b.n * a.d

\* a + b of JavaScript: addition of two numbers, concatenation otherwise
Plus(a, b) ==
    IF a.t = "number" /\ b.t = "number" /\ a.d = 1 /\ b.d = 1
    THEN Num(a.n + b.n)
    ELSE Str(ToStr(a) \o ToStr(b))

\* v.length: defined on strings only (a number has no length property)
LengthOf(v) == IF v.t = "string" THEN Num(Len(v.s)) ELSE Undefined

\* array.indexOf(x): the zero-based index of the first x, or -1
IndexOf(array, x) ==
    IF \E i \in 1..Len(array) : array[i] = x
    THEN Num((CHOOSE i \in 1..Len(array) :
                 array[i] = x /\ \A j \in 1..(i - 1) : array[j] # x) - 1)
    ELSE Num(0 - 1)

\* ------------------------------------------------------------------------
\* Constants of the library
\* ------------------------------------------------------------------------

kChars == <<"c", "h", "a", "r", "s">>

kFontSize == <<"f", "o", "n", "t", "S", "i", "z", "e">>

kBaseline == <<"b", "a", "s", "e", "l", "i", "n", "e">>

kCapHeight == <<"c", "a", "p", "H", "e", "i", "g", "h", "t">>

kXHeight == <<"x", "H", "e", "i", "g", "h", "t">>

kDescent == <<"d", "e", "s", "c", "e", "n", "t">>

kAscent == <<"a", "s", "c", "e", "n", "t">>

kTittle == <<"t", "i", "t", "t", "l", "e">>

AnchorKeys == <<kCapHeight, kBaseline, kXHeight, kDescent, kAscent, kTittle>>

defaultOptions ==
    Obj(<< Prop(kChars, Obj(<< Prop(kCapHeight, Str(<<"S">>)),
                               Prop(kBaseline, Str(<<"n">>)),
                               Prop(kXHeight, Str(<<"x">>)),
                               Prop(kDescent, Str(<<"p">>)),
                               Prop(kAscent, Str(<<"h">>)),
                               Prop(kTittle, Str(<<"i">>)) >>)),
           Prop(kFontSize, Num(16)),
           Prop(kBaseline, Str(<<"t", "o", "p">>)) >>)

defaultFontWeight == Num(400)

defaultFontStyle == Str(<<"n", "o", "r", "m", "a", "l">>)

\* the ligature names in declaration order, with their code points
ligatureCodes ==
    << [name |-> <<"f", "f">>, code |-> 64256],
       [name |-> <<"f", "i">>, code |-> 64257],
       [name |-> <<"f", "l">>, code |-> 64258],
       [name |-> <<"s", "t">>, code |-> 64262] >>

blankFontFamily == <<"A", "d", "o", "b", "e", "B", "l", "a", "n", "k">>

\* the last code point of the glyph scan (the loop runs while i <= 65535)
LastCharCode == 65535

\* String.fromCharCode: the one-character string of a code point.  The
\* characters some font of the model has a glyph for are told apart; every
\* other code point is written "u????", a character no font of the model
\* has a glyph for.
fromCharCode(code) ==
    CASE code = 0 -> <<"u0000">>
      [] code = 72 -> <<"H">>
      [] code = 83 -> <<"S">>
      [] code = 88 -> <<"X">>
      [] code = 99 -> <<"c">>
      [] code = 100 -> <<"d">>
      [] code = 101 -> <<"e">>
      [] code = 102 -> <<"f">>
      [] code = 104 -> <<"h">>
      [] code = 105 -> <<"i">>
      [] code = 110 -> <<"n">>
      [] code = 111 -> <<"o">>
      [] code = 112 -> <<"p">>
      [] code = 114 -> <<"r">>
      [] code = 115 -> <<"s">>
      [] code = 116 -> <<"t">>
      [] code = 117 -> <<"u">>
      [] code = 120 -> <<"x">>
      [] code = 64256 -> <<"uFB00">>
      [] code = 64257 -> <<"uFB01">>
      [] code = 64258 -> <<"uFB02">>
      [] code = 64262 -> <<"uFB06">>
      [] code = 65535 -> <<"uFFFF">>
      [] OTHER -> <<"u????">>

\* ------------------------------------------------------------------------
\* The text rendering surface (an external capability): the fonts installed
\* on the page, glyph boxes in sixteenths of an em.  A character the
\* requested family lacks is drawn by the blank face: no width, no extent.
\* ------------------------------------------------------------------------

famA == <<"A">>

famA4 == <<"A", "4">>

\* a family with a glyph at both ends of the scanned range and all four
\* ligatures
famB == <<"B">>

\* a family without any glyph: every probe is drawn by the blank face
famZ == <<"Z">>

\* the families "L....": the anchor characters, and the ligatures ff, fi,
\* fl, st that the four flags of the name switch on
LigFlags == {"0", "1"}

famL(ff, fi, fl, st) == <<"L", ff, fi, fl, st>>

UnitsPerEm == 16

Glyph(w, a, d) == [w |-> w, a |-> a, d |-> d]

BlankGlyph == Glyph(0, 0, 0)

GlyphOf(family, ch) ==
    IF family = famA
    THEN CASE ch = "S" -> Glyph(10, 11, 0)
           [] ch = "H" -> Glyph(11, 12, 0)
           [] ch = "n" -> Glyph(9, 8, 0)
           [] ch = "x" -> Glyph(8, 7, 0)
           [] ch = "p" -> Glyph(9, 8, 3)
           [] ch = "h" -> Glyph(9, 12, 0)
           [] ch = "i" -> Glyph(4, 11, 0)
           [] ch = "X" -> Glyph(10, 11, 0)
           [] ch = "u" -> Glyph(9, 8, 0)
           [] ch = "d" -> Glyph(9, 12, 0)
           [] ch = "e" -> Glyph(8, 8, 0)
           [] ch = "f" -> Glyph(5, 12, 0)
           [] ch = "c" -> Glyph(8, 8, 0)
           [] ch = "o" -> Glyph(9, 8, 0)
           [] ch = "s" -> Glyph(7, 8, 0)
           [] ch = "t" -> Glyph(5, 10, 0)
           [] ch = "r" -> Glyph(6, 8, 0)
           [] ch = "uFB01" -> Glyph(9, 12, 0)
           [] ch = "uFB06" -> Glyph(10, 10, 0)
           [] OTHER -> BlankGlyph
    ELSE IF family = famA4
    THEN CASE ch = "S" -> Glyph(12, 10, 1)
           [] ch = "n" -> Glyph(10, 7, 0)
           [] ch = "x" -> Glyph(10, 7, 0)
           [] ch = "p" -> Glyph(10, 7, 4)
           [] ch = "h" -> Glyph(10, 13, 0)
           [] ch = "X" -> Glyph(12, 10, 0)
           [] ch = "uFB00" -> Glyph(11, 13, 0)
           [] OTHER -> BlankGlyph
    ELSE IF family = famB
    THEN CASE ch = "u0000" -> Glyph(8, 0, 0)
           [] ch = "S" -> Glyph(10, 11, 0)
           [] ch = "n" -> Glyph(9, 8, 0)
           [] ch = "x" -> Glyph(8, 7, 0)
           [] ch = "p" -> Glyph(9, 8, 3)
           [] ch = "h" -> Glyph(9, 12, 0)
           [] ch = "i" -> Glyph(4, 11, 0)
           [] ch = "uFB00" -> Glyph(10, 12, 0)
           [] ch = "uFB01" -> Glyph(9, 12, 0)
           [] ch = "uFB02" -> Glyph(9, 12, 0)
           [] ch = "uFB06" -> Glyph(10, 10, 0)
           [] ch = "uFFFF" -> Glyph(16, 12, 4)
           [] OTHER -> BlankGlyph
    ELSE IF Len(family) = 5 /\ family[1] = "L"
    THEN CASE ch = "S" -> Glyph(10, 11, 0)
           [] ch = "n" -> Glyph(9, 8, 0)
           [] ch = "x" -> Glyph(8, 7, 0)
           [] ch = "p" -> Glyph(9, 8, 3)
           [] ch = "h" -> Glyph(9, 12, 0)
           [] ch = "i" -> Glyph(4, 11, 0)
           [] ch = "uFB00" /\ family[2] = "1" -> Glyph(10, 12, 0)
           [] ch = "uFB01" /\ family[3] = "1" -> Glyph(9, 12, 0)
           [] ch = "uFB02" /\ family[4] = "1" -> Glyph(9, 12, 0)
           [] ch = "uFB06" /\ family[5] = "1" -> Glyph(10, 10, 0)
           [] OTHER -> BlankGlyph
    ELSE BlankGlyph

Max(a, b) == IF a > b THEN a ELSE b

RECURSIVE Extent(_, _, _)
Extent(family, chars, i) ==
    IF i > Len(chars) THEN BlankGlyph
    ELSE LET g == GlyphOf(family, chars[i])
             rest == Extent(family, chars, i + 1)
         IN  Glyph(g.w + rest.w, Max(g.a, rest.a), Max(g.d, rest.d))

kWidth == <<"w", "i", "d", "t", "h">>

kActualBoundingBoxAscent == <<"a", "c", "t", "u", "a", "l", "B", "o", "u", "n", "d", "i", "n", "g", "B", "o", "x", "A", "s", "c", "e", "n", "t">>

kActualBoundingBoxDescent == <<"a", "c", "t", "u", "a", "l", "B", "o", "u", "n", "d", "i", "n", "g", "B", "o", "x", "D", "e", "s", "c", "e", "n", "t">>

\* the canvas implementation of the browser: "full" reports the bounding
\* box of the text, "legacy" reports the width only (a TextMetrics without
\* the actualBoundingBox members)
VARIABLE surface

SurfaceKinds == {"full", "legacy"}

\* ctx.measureText(string): the argument is converted to a string, the box
\* is scaled by the surface's font size
measureText(ctx, string) ==
    LET e == Extent(ctx.family, ToStr(string), 1)
        px(u) == Frac(u * ctx.size.n, UnitsPerEm * ctx.size.d)
    IN  IF surface = "legacy"
        THEN Obj(<< Prop(kWidth, px(e.w)) >>)
        ELSE Obj(<< Prop(kWidth, px(e.w)),
                    Prop(kActualBoundingBoxAscent, px(e.a)),
                    Prop(kActualBoundingBoxDescent, px(e.d)) >>)

\* ------------------------------------------------------------------------
\* The inputs of the model
\* ------------------------------------------------------------------------

Requests == 1..MaxRequests

Settings(fontFamily, fontWeight, fontStyle, options) ==
    [fontFamily |-> fontFamily, fontWeight |-> fontWeight, fontStyle |-> fontStyle,
     options |-> options]

\* the settings the factory is called with; undefined stands for a setting
\* the caller leaves out
CallInputs ==
    { Settings(famA, Undefined, Undefined, Undefined),
      Settings(famA, Num(400), Str(<<"n", "o", "r", "m", "a", "l">>),
               Obj(<< Prop(kFontSize, Num(32)),
                      Prop(kChars, Obj(<< Prop(kCapHeight, Str(<<"H">>)) >>)) >>)),
      Settings(famA, Num(400), Str(<<"n", "o", "r", "m", "a", "l">>), Null),
      Settings(famA4, Str(<<"0", "0">>), Undefined, Undefined) }

\* the conditions the font loading signal fails with
LoadErrors == {"FontLoadTimeout", "FontLoadError"}

\* the strings measureWidth is called with: one with a width, one without
WidthStrings == {Str(<<"X">>), Str(<<>>)}

\* the settings of a page that builds one instance and measures with it:
\* every combination of the four ligatures, and the fonts of CallInputs
MetricsInputs ==
    { Settings(famL(ff, fi, fl, st), Undefined, Undefined, Undefined) :
          ff \in LigFlags, fi \in LigFlags, fl \in LigFlags, st \in LigFlags }
    \cup { Settings(famA, Undefined, Undefined, Undefined),
           Settings(famA, Num(400), Str(<<"n", "o", "r", "m", "a", "l">>),
                    Obj(<< Prop(kFontSize, Num(32)),
                           Prop(kChars, Obj(<< Prop(kCapHeight, Str(<<"H">>)) >>)) >>)),
           Settings(famB, Undefined, Undefined, Undefined) }

\* the strings that page calls measureWidth with: also the name of a member
\* every object inherits
MetricsWidthStrings ==
    WidthStrings \cup {Str(<<"c", "o", "n", "s", "t", "r", "u", "c", "t", "o", "r">>)}

\* the strings that page calls measureText with: one with a descender, one
\* without, one without any extent
TextStrings == {Str(<<"p">>), Str(<<"X">>), Str(<<>>)}

\* the settings of a page that lists the glyphs of one instance
GlyphInputs ==
    { Settings(famA, Undefined, Undefined, Undefined),
      Settings(famA, Num(400), Str(<<"n", "o", "r", "m", "a", "l">>),
               Obj(<< Prop(kFontSize, Num(32)),
                      Prop(kChars, Obj(<< Prop(kCapHeight, Str(<<"H">>)) >>)) >>)),
      Settings(famA4, Str(<<"0", "0">>), Undefined, Undefined),
      Settings(famB, Undefined, Undefined, Undefined),
      Settings(famB, Undefined, Undefined, Obj(<< Prop(kFontSize, Num(32)) >>)),
      Settings(famZ, Undefined, Undefined, Undefined),
      Settings(famL("1", "1", "1", "1"), Undefined, Undefined, Undefined),
      Settings(famL("0", "0", "0", "0"), Undefined, Undefined, Undefined),
      Settings(famA, Num(400), Str(<<"n", "o", "r", "m", "a", "l">>), Null),
      Settings(famA4, Str(<<"0", "0">>), Str(<<"n", "o", "r", "m", "a", "l">>), Null),
      Settings(famB, Num(400), Str(<<"n", "o", "r", "m", "a", "l">>), Null),
      Settings(famZ, Num(400), Str(<<"n", "o", "r", "m", "a", "l">>), Null) }

NoArgs == [fontFamily |-> <<>>, fontWeight |-> Undefined, fontStyle |-> Undefined,
           options |-> Undefined]

\* ------------------------------------------------------------------------
\* State
\* ------------------------------------------------------------------------

VARIABLES
    instances,            \* the instance cache: id -> Metrics object
    insertedBlankFonts,   \* the backup face registry: array of weight + style
    head,                 \* the style elements appended to document.head
    pc,                   \* where each CanvasFontMetrics call stands
    args,                 \* the parameters of each call, defaults applied
    id,                   \* the cache key each call computed
    result,               \* the Metrics object a call resolved to (0: none)
    error,                \* the condition a call was rejected with ("": none)
    heap,                 \* the Metrics objects, with the state private to
                          \* each one's closures (ctx, fontSize, chars, widths);
                          \* an object is named by the call that built it
    loads,                \* history: the families each call waited for
    raised,               \* history: what the loading signal failed with
    probes,               \* history: probe measurement runs made by each call
    settledBefore,        \* history: the calls settled when a call was made
    widthLog,             \* history of measureWidth, per object and string
    measureCalls,         \* history: measureWidth calls made so far
    events,               \* history: the steps each call took, in order
    glyphLog,             \* history of getGlyphs, per object
    textLog               \* history of measureText: string and returned value

vars == <<instances, insertedBlankFonts, head, pc, args, id, result, error, heap,
          loads, raised, probes, settledBefore, widthLog, measureCalls,
          events, glyphLog, textLog, surface>>

\* the page after the module is loaded, on any canvas implementation
InitPage ==
    /\ instances = <<>>
    /\ insertedBlankFonts = <<>>
    /\ head = <<>>
    /\ pc = [r \in Requests |-> "idle"]
    /\ args = [r \in Requests |-> NoArgs]
    /\ id = [r \in Requests |-> <<>>]
    /\ result = [r \in Requests |-> 0]
    /\ error = [r \in Requests |-> ""]
    /\ heap = <<>>
    /\ loads = [r \in Requests |-> <<>>]
    /\ raised = [r \in Requests |-> ""]
    /\ probes = [r \in Requests |-> 0]
    /\ settledBefore = [r \in Requests |-> {}]
    /\ widthLog = <<>>
    /\ measureCalls = 0
    /\ events = [r \in Requests |-> <<>>]
    /\ glyphLog = <<>>
    /\ textLog = <<>>

Init == InitPage /\ surface = "full"

InitAnySurface == InitPage /\ surface \in SurfaceKinds

\* ------------------------------------------------------------------------
\* Utility methods
\* ------------------------------------------------------------------------

\* the registry test of insertblankFont: indexOf(id).length > -1
AlreadyInserted(array, blankId) ==
    Gt(LengthOf(IndexOf(array, blankId)), Num(0 - 1))

\* the @font-face rule insertblankFont writes
BlankFontRule(weight, style) ==
    [fontFamily |-> blankFontFamily, fontWeight |-> ToStr(weight),
     fontStyle |-> ToStr(style)]

\* insertblankFont: the style elements and the registry after the call
insertblankFont(weight, style) ==
    LET blankId == Plus(weight, style)
    IN  IF AlreadyInserted(insertedBlankFonts, blankId)
        THEN [head |-> head, inserted |-> insertedBlankFonts]
        ELSE [head |-> Append(head, BlankFontRule(weight, style)),
              inserted |-> Append(insertedBlankFonts, blankId)]

\* getId without the options
getIdFamilyOnly(a) ==
    ToStr(Str(a.fontFamily)) \o ToStr(a.fontWeight) \o ToStr(a.fontStyle)

getId(a) ==
    ToStr(Str(a.fontFamily)) \o ToStr(a.fontWeight) \o ToStr(a.fontStyle)
        \o (IF a.options.t = "undefined" THEN ToStr(Undefined)
            ELSE JSONstringify(a.options))

setFont(fontFamily, fontWeight, fontStyle, fontSize, baseline) ==
    [font |-> ToStr(fontWeight) \o <<" ">> \o ToStr(fontStyle) \o <<" ">>
              \o ToStr(fontSize) \o <<"p", "x", " ">> \o fontFamily
              \o <<",", " ">> \o blankFontFamily,
     textAlign |-> "left",
     textBaseline |-> baseline,
     family |-> fontFamily,
     size |-> fontSize]

RECURSIVE detectFrom(_, _)
detectFrom(ctx, i) ==
    IF i > Len(ligatureCodes) THEN <<>>
    ELSE (IF Gt(Get(measureText(ctx, Str(fromCharCode(ligatureCodes[i].code))), kWidth),
                Num(0))
          THEN <<ligatureCodes[i].name>> ELSE <<>>)
         \o detectFrom(ctx, i + 1)

\* detectLigatures putting each detected name in front of the earlier ones
RECURSIVE detectFromUnshifting(_, _)
detectFromUnshifting(ctx, i) ==
    IF i > Len(ligatureCodes) THEN <<>>
    ELSE detectFromUnshifting(ctx, i + 1)
         \o (IF Gt(Get(measureText(ctx, Str(fromCharCode(ligatureCodes[i].code))),
                       kWidth), Num(0))
             THEN <<ligatureCodes[i].name>> ELSE <<>>)

detectLigaturesUnshifting(ctx) == detectFromUnshifting(ctx, 1)

detectLigatures(ctx) == detectFrom(ctx, 1)

\* the loop of detectGlyphs over the code points lo..hi, in ascending order
RECURSIVE detectRange(_, _, _)
detectRange(ctx, lo, hi) ==
    IF lo > hi THEN <<>>
    ELSE IF lo = hi
    THEN (IF Gt(Get(measureText(ctx, Str(fromCharCode(lo))), kWidth), Num(0))
          THEN <<Str(fromCharCode(lo))>> ELSE <<>>)
    ELSE LET mid == (lo + hi) \div 2
         IN  detectRange(ctx, lo, mid) \o detectRange(ctx, mid + 1, hi)

\* detectGlyphs with a loop that stops before the last code point
detectGlyphsBelowLast(ctx) == detectRange(ctx, 0, LastCharCode - 1)

detectGlyphs(ctx) == detectRange(ctx, 0, LastCharCode)

\* the loop of normalize over the properties of measurements from the i-th
RECURSIVE normalizeFrom(_, _, _, _)
normalizeFrom(normalized, measurements, fontSize, i) ==
    IF i > Len(measurements.o) THEN normalized
    ELSE LET prop == measurements.o[i].k
             value == measurements.o[i].v
         IN  normalizeFrom(Set(normalized, prop,
                               IF ~Falsy(value) THEN Div(value, fontSize) ELSE value),
                           measurements, fontSize, i + 1)

\* normalize that returns the measurements as they are
normalizeUnscaled(ctx, measurements, fontSize) == measurements

normalize(ctx, measurements, fontSize) ==
    normalizeFrom(Obj(<<>>), measurements, fontSize, 1)

measureTop(ctx, string, fontSize) ==
    Div(Get(measureText(ctx, string), kActualBoundingBoxAscent), fontSize)

measureBottom(ctx, string, fontSize) ==
    Div(Get(measureText(ctx, string), kActualBoundingBoxDescent), fontSize)

\* ------------------------------------------------------------------------
\* CanvasFontMetrics
\* ------------------------------------------------------------------------

\* the parameter defaults of the factory: they replace undefined only
Defaulted(fontFamily, fontWeight, fontStyle, options) ==
    [fontFamily |-> fontFamily,
     fontWeight |-> IF fontWeight.t = "undefined" THEN defaultFontWeight ELSE fontWeight,
     fontStyle |-> IF fontStyle.t = "undefined" THEN defaultFontStyle ELSE fontStyle,
     options |-> IF options.t = "undefined" THEN Obj(<<>>) ELSE options]

\* a factory that never finds its cache entry
NeverCached(key) == FALSE

\* instances[id] !== undefined
Cached(key) == key \in DOMAIN instances

\* the merge of the caller's options over the defaults
mergedOptions(options) ==
    LET chars == Spread(Spread(Obj(<<>>), Get(defaultOptions, kChars)),
                        Get(options, kChars))
    IN  Spread(Spread(Obj(<< Prop(kChars, chars) >>), defaultOptions), options)

\* the Metrics object and the variables its closures capture
NewInstance(a) ==
    LET merged == mergedOptions(a.options)
        fontSize == Get(merged, kFontSize)
        chars == Get(merged, kChars)
        baseline == Get(merged, kBaseline)
        ctx == setFont(a.fontFamily, a.fontWeight, a.fontStyle, fontSize, baseline)
    IN  [capHeight |-> measureTop(ctx, Get(chars, kCapHeight), fontSize),
         baseline |-> measureBottom(ctx, Get(chars, kBaseline), fontSize),
         xHeight |-> measureTop(ctx, Get(chars, kXHeight), fontSize),
         descent |-> measureBottom(ctx, Get(chars, kDescent), fontSize),
         ascent |-> measureTop(ctx, Get(chars, kAscent), fontSize),
         tittle |-> measureTop(ctx, Get(chars, kTittle), fontSize),
         ligatures |-> detectLigatures(ctx),
         ctx |-> ctx,
         fontSize |-> fontSize,
         chars |-> chars,
         widths |-> Obj(<<>>)]

Settled == {r \in Requests : pc[r] \in {"fulfilled", "rejected"}}

\* a factory that registers the backup face before it looks in the cache
CallInsertingFirst(r, settings) ==
    /\ pc[r] = "idle"
    /\ \A q \in Requests : q < r => pc[q] # "idle"
    /\ LET a == Defaulted(settings.fontFamily, settings.fontWeight,
                          settings.fontStyle, settings.options)
       IN  /\ args' = [args EXCEPT ![r] = a]
           /\ id' = [id EXCEPT ![r] = getId(a)]
           /\ settledBefore' = [settledBefore EXCEPT ![r] = Settled]
           /\ head' = insertblankFont(a.fontWeight, a.fontStyle).head
           /\ insertedBlankFonts' = insertblankFont(a.fontWeight, a.fontStyle).inserted
           /\ IF Cached(getId(a))
              THEN /\ pc' = [pc EXCEPT ![r] = "fulfilled"]
                   /\ result' = [result EXCEPT ![r] = instances[getId(a)]]
                   /\ UNCHANGED <<loads, events>>
              ELSE /\ pc' = [pc EXCEPT ![r] = "waitFont"]
                   /\ events' = [events EXCEPT ![r] = <<"insertblankFont", "waitFont">>]
                   /\ loads' = [loads EXCEPT ![r] = Append(@, a.fontFamily)]
                   /\ UNCHANGED result
    /\ UNCHANGED <<instances, error, heap, raised, probes, widthLog, measureCalls,
                   glyphLog, textLog, surface>>

\* a call of the factory, up to its first await: a cached instance is
\* returned at once; otherwise the backup face is inserted and the wait for
\* the requested family begins
Call(r, settings) ==
    /\ pc[r] = "idle"
    /\ \A q \in Requests : q < r => pc[q] # "idle"
    /\ LET a == Defaulted(settings.fontFamily, settings.fontWeight,
                          settings.fontStyle, settings.options)
       IN  /\ args' = [args EXCEPT ![r] = a]
           /\ id' = [id EXCEPT ![r] = getId(a)]
           /\ settledBefore' = [settledBefore EXCEPT ![r] = Settled]
           /\ IF Cached(getId(a))
              THEN /\ pc' = [pc EXCEPT ![r] = "fulfilled"]
                   /\ result' = [result EXCEPT ![r] = instances[getId(a)]]
                   /\ UNCHANGED <<head, insertedBlankFonts, loads, events>>
              ELSE /\ pc' = [pc EXCEPT ![r] = "waitFont"]
                   /\ events' = [events EXCEPT ![r] = <<"insertblankFont", "waitFont">>]
                   /\ head' = insertblankFont(a.fontWeight, a.fontStyle).head
                   /\ insertedBlankFonts' =
                          insertblankFont(a.fontWeight, a.fontStyle).inserted
                   /\ loads' = [loads EXCEPT ![r] = Append(@, a.fontFamily)]
                   /\ UNCHANGED result
    /\ UNCHANGED <<instances, error, heap, raised, probes, widthLog, measureCalls,
                   glyphLog, textLog, surface>>

\* the requested family is loaded: the wait for the backup family begins
FontLoaded(r) ==
    /\ pc[r] = "waitFont"
    /\ pc' = [pc EXCEPT ![r] = "waitBlank"]
    /\ loads' = [loads EXCEPT ![r] = Append(@, blankFontFamily)]
    /\ events' = [events EXCEPT ![r] = @ \o <<"fontLoaded", "waitBlank">>]
    /\ UNCHANGED <<instances, insertedBlankFonts, head, args, id, result, error, heap,
                   raised, probes, settledBefore, widthLog, measureCalls,
                   glyphLog, textLog, surface>>

\* a factory that stores a placeholder under the key when a wait fails
LoadFailedStoring(r, err) ==
    /\ pc[r] \in {"waitFont", "waitBlank"}
    /\ pc' = [pc EXCEPT ![r] = "rejected"]
    /\ raised' = [raised EXCEPT ![r] = err]
    /\ error' = [error EXCEPT ![r] = err]
    /\ instances' = [k \in DOMAIN instances \cup {id[r]} |->
                        IF k = id[r] THEN r ELSE instances[k]]
    /\ events' = [events EXCEPT ![r] = Append(@, "loadFailed")]
    /\ UNCHANGED <<insertedBlankFonts, head, args, id, result, heap,
                   loads, probes, settledBefore, widthLog, measureCalls,
                   glyphLog, textLog, surface>>

\* a factory that waits for the family a second time when a wait fails
LoadFailedRetrying(r, err) ==
    /\ pc[r] \in {"waitFont", "waitBlank"}
    /\ raised' = [raised EXCEPT ![r] = err]
    /\ IF Len(loads[r]) < 3
       THEN /\ loads' = [loads EXCEPT ![r] = Append(@, @[Len(@)])]
            /\ UNCHANGED <<pc, error>>
       ELSE /\ pc' = [pc EXCEPT ![r] = "rejected"]
            /\ error' = [error EXCEPT ![r] = err]
            /\ UNCHANGED loads
    /\ events' = [events EXCEPT ![r] = Append(@, "loadFailed")]
    /\ UNCHANGED <<instances, insertedBlankFonts, head, args, id, result, heap,
                   probes, settledBefore, widthLog, measureCalls,
                   glyphLog, textLog, surface>>

\* observer.load() rejects while the call awaits it: the call is rejected
\* with the same condition
LoadFailed(r, err) ==
    /\ pc[r] \in {"waitFont", "waitBlank"}
    /\ pc' = [pc EXCEPT ![r] = "rejected"]
    /\ raised' = [raised EXCEPT ![r] = err]
    /\ error' = [error EXCEPT ![r] = err]
    /\ events' = [events EXCEPT ![r] = Append(@, "loadFailed")]
    /\ UNCHANGED <<instances, insertedBlankFonts, head, args, id, result, heap,
                   loads, probes, settledBefore, widthLog, measureCalls,
                   glyphLog, textLog, surface>>

\* a factory that measures the first anchor before it configures the surface
ConstructionStepsProbingFirst ==
    <<"measureTop", "setFont", "measureBottom", "measureTop", "measureBottom",
      "measureTop", "measureTop", "detectLigatures">>

\* the steps of the factory on the private surface once both families are
\* loaded, in the order of the code: the surface is configured, then the
\* six anchors and the ligatures are measured
ConstructionSteps ==
    <<"setFont", "measureTop", "measureBottom", "measureTop", "measureBottom",
      "measureTop", "measureTop", "detectLigatures">>

\* the backup family is loaded: the rest of the factory runs without
\* suspending.  Reading options.chars of null throws a TypeError.
BlankLoaded(r) ==
    /\ pc[r] = "waitBlank"
    /\ IF args[r].options.t = "null"
       THEN /\ pc' = [pc EXCEPT ![r] = "rejected"]
            /\ error' = [error EXCEPT ![r] = "TypeError"]
            /\ events' = [events EXCEPT ![r] = Append(@, "blankLoaded")]
            /\ UNCHANGED <<instances, result, heap, probes>>
       ELSE /\ heap' = [q \in DOMAIN heap \cup {r} |->
                           IF q = r THEN NewInstance(args[r]) ELSE heap[q]]
            /\ probes' = [probes EXCEPT ![r] = @ + 1]
            /\ instances' = [k \in DOMAIN instances \cup {id[r]} |->
                                IF k = id[r] THEN r ELSE instances[k]]
            /\ pc' = [pc EXCEPT ![r] = "fulfilled"]
            /\ result' = [result EXCEPT ![r] = r]
            /\ events' = [events EXCEPT ![r] =
                              Append(@, "blankLoaded") \o ConstructionSteps]
            /\ UNCHANGED error
    /\ UNCHANGED <<insertedBlankFonts, head, args, id, loads, raised, settledBefore,
                   widthLog, measureCalls,
                   glyphLog, textLog, surface>>

\* ------------------------------------------------------------------------
\* The methods of a Metrics object
\* ------------------------------------------------------------------------

\* the properties an object literal inherits from Object.prototype
ObjectPrototypeKeys ==
    { <<"c", "o", "n", "s", "t", "r", "u", "c", "t", "o", "r">>,
      <<"t", "o", "S", "t", "r", "i", "n", "g">>,
      <<"v", "a", "l", "u", "e", "O", "f">> }

\* obj[key] as a property read: own properties, then the prototype
Lookup(obj, key) ==
    IF HasOwn(obj, key) THEN Get(obj, key)
    ELSE IF key \in ObjectPrototypeKeys THEN Fn(key)
    ELSE Undefined

\* the width cache after measureWidth(string): filled when widths[string]
\* is falsy
WidthsAfter(m, string) ==
    IF Falsy(Lookup(m.widths, ToStr(string)))
    THEN Set(m.widths, ToStr(string),
             Div(Get(measureText(m.ctx, string), kWidth), m.fontSize))
    ELSE m.widths

NoLog == [calls |-> 0, surface |-> 0, values |-> {}]

LogOf(ref, string) ==
    IF <<ref, string>> \in DOMAIN widthLog THEN widthLog[<<ref, string>>] ELSE NoLog

\* metrics.measureWidth(string) on the Metrics object ref
measureWidth(ref, string) ==
    /\ ref \in DOMAIN heap
    /\ measureCalls < MaxMeasureCalls
    /\ LET m == heap[ref]
           measured == Falsy(Lookup(m.widths, ToStr(string)))
           widths == WidthsAfter(m, string)
           returned == Lookup(widths, ToStr(string))
           entry == [calls |-> LogOf(ref, string).calls + 1,
                     surface |-> LogOf(ref, string).surface + (IF measured THEN 1 ELSE 0),
                     values |-> LogOf(ref, string).values \cup {returned}]
       IN  /\ heap' = [heap EXCEPT ![ref].widths = widths]
           /\ widthLog' = [p \in DOMAIN widthLog \cup {<<ref, string>>} |->
                              IF p = <<ref, string>> THEN entry ELSE widthLog[p]]
    /\ measureCalls' = measureCalls + 1
    /\ UNCHANGED <<instances, insertedBlankFonts, head, pc, args, id, result,
                   error, loads, raised, probes, settledBefore, events,
                   glyphLog, textLog, surface>>

NoGlyphLog == [calls |-> 0, scans |-> 0, results |-> {}]

GlyphLogOf(ref) == IF ref \in DOMAIN glyphLog THEN glyphLog[ref] ELSE NoGlyphLog

\* a getGlyphs that keeps the array of its first call
getGlyphsCached(ref) ==
    /\ ref \in DOMAIN heap
    /\ GlyphLogOf(ref).calls < MaxGlyphCalls
    /\ LET log == GlyphLogOf(ref)
           entry == IF log.results = {}
                    THEN [calls |-> 1, scans |-> 1,
                          results |-> {detectGlyphs(heap[ref].ctx)}]
                    ELSE [log EXCEPT !.calls = @ + 1]
       IN  glyphLog' = [q \in DOMAIN glyphLog \cup {ref} |->
                           IF q = ref THEN entry ELSE glyphLog[q]]
    /\ UNCHANGED <<instances, insertedBlankFonts, head, pc, args, id, result,
                   error, heap, loads, raised, probes, settledBefore, widthLog,
                   measureCalls, events, textLog, surface>>

\* metrics.getGlyphs() on the Metrics object ref: detectGlyphs runs on the
\* object's surface, the array it returns is handed to the caller
getGlyphs(ref) ==
    /\ ref \in DOMAIN heap
    /\ GlyphLogOf(ref).calls < MaxGlyphCalls
    /\ LET log == GlyphLogOf(ref)
           entry == [calls |-> log.calls + 1,
                     scans |-> log.scans + 1,
                     results |-> log.results \cup {detectGlyphs(heap[ref].ctx)}]
       IN  glyphLog' = [q \in DOMAIN glyphLog \cup {ref} |->
                           IF q = ref THEN entry ELSE glyphLog[q]]
    /\ UNCHANGED <<instances, insertedBlankFonts, head, pc, args, id, result,
                   error, heap, loads, raised, probes, settledBefore, widthLog,
                   measureCalls, events, textLog, surface>>

\* metrics.measureText(string) on the Metrics object ref
metricsMeasureText(ref, string) ==
    /\ ref \in DOMAIN heap
    /\ Len(textLog) < MaxTextCalls
    /\ LET m == heap[ref]
           returned == normalize(m.ctx, measureText(m.ctx, string), m.fontSize)
       IN  textLog' = Append(textLog,
                             [ref |-> ref, string |-> string, returned |-> returned])
    /\ UNCHANGED <<instances, insertedBlankFonts, head, pc, args, id, result,
                   error, heap, loads, raised, probes, settledBefore, widthLog,
                   measureCalls, events, glyphLog, surface>>

\* ------------------------------------------------------------------------
\* Specification
\* ------------------------------------------------------------------------

Next ==
    \/ \E r \in Requests, settings \in CallInputs : Call(r, settings)
    \/ \E r \in Requests : FontLoaded(r)
    \/ \E r \in Requests, err \in LoadErrors : LoadFailed(r, err)
    \/ \E r \in Requests : BlankLoaded(r)
    \/ \E ref \in Requests, string \in WidthStrings : measureWidth(ref, string)

Spec == Init /\ [][Next]_vars

\* a page that builds one instance, on either canvas implementation, and
\* measures strings with it
NextMetrics ==
    \/ \E settings \in MetricsInputs : Call(1, settings)
    \/ FontLoaded(1)
    \/ \E err \in LoadErrors : LoadFailed(1, err)
    \/ BlankLoaded(1)
    \/ \E string \in MetricsWidthStrings : measureWidth(1, string)
    \/ \E string \in TextStrings : metricsMeasureText(1, string)

SpecMetrics == InitAnySurface /\ [][NextMetrics]_vars

\* a page that builds one instance and lists its glyphs
NextGlyphs ==
    \/ \E settings \in GlyphInputs : Call(1, settings)
    \/ FontLoaded(1)
    \/ \E err \in LoadErrors : LoadFailed(1, err)
    \/ BlankLoaded(1)
    \/ getGlyphs(1)

SpecGlyphs == Init /\ [][NextGlyphs]_vars

\* ------------------------------------------------------------------------
\* Properties
\* ------------------------------------------------------------------------

Called(r) == pc[r] # "idle"

RECURSIVE ProbeRunsUpTo(_, _)
ProbeRunsUpTo(key, r) ==
    IF r = 0 THEN 0
    ELSE ProbeRunsUpTo(key, r - 1) + (IF Called(r) /\ id[r] = key THEN probes[r] ELSE 0)

\* the probe measurement runs made so far for an identity key
ProbeRuns(key) == ProbeRunsUpTo(key, MaxRequests)

\* the calls made before call r2 for the same identity key
EarlierSameKey(r2) == {q \in Requests : q < r2 /\ id[q] = id[r2]}

\* C1: for every identity the probe measurement run executes at most once,
\* whatever the interleaving of the calls.
C1_AtMostOneProbeRun ==
    \A r \in Requests : Called(r) => ProbeRuns(id[r]) <= 1

\* C2: calls for one identity that are made before the first of them
\* resolves, and whose waits succeed, all resolve to the same Metrics object.
C2_ConcurrentCallsShareInstance ==
    \A r1, r2 \in Requests :
        (/\ r1 < r2 /\ Called(r2) /\ id[r1] = id[r2]
         /\ r1 \notin settledBefore[r2]
         /\ pc[r1] = "fulfilled" /\ pc[r2] = "fulfilled")
        => result[r1] = result[r2]

\* C3: a second call for an identity, made after the first call for it has
\* resolved, returns the Metrics object of the first call, and the probe
\* measurement has run exactly once for the identity.
C3_SequentialCallsShareInstance ==
    \A r1, r2 \in Requests :
        (/\ Called(r2) /\ EarlierSameKey(r2) = {r1}
         /\ r1 \in settledBefore[r2] /\ pc[r1] = "fulfilled")
        => /\ pc[r2] = "fulfilled"
           /\ result[r2] = result[r1]
           /\ ProbeRuns(id[r2]) = 1

C3_Witness ==
    \E r1, r2 \in Requests :
        /\ Called(r2) /\ EarlierSameKey(r2) = {r1}
        /\ r1 \in settledBefore[r2] /\ pc[r1] = "fulfilled"
        /\ result[r2] = r1

\* a call rejected because a readiness wait failed
WaitFailed(r) == pc[r] = "rejected" /\ raised[r] # ""

\* C4: a call whose readiness wait fails leaves no cache entry, and a later
\* call for the same identity that no resolved call precedes runs the
\* readiness waits again.
C4_FailureLeavesNoEntry ==
    \A r1 \in Requests :
        WaitFailed(r1)
        => /\ \A k \in DOMAIN instances : instances[k] # r1
           /\ \A r2 \in Requests :
                  (/\ Called(r2) /\ id[r2] = id[r1] /\ r1 \in settledBefore[r2]
                   /\ \A q \in settledBefore[r2] :
                          id[q] = id[r2] => pc[q] # "fulfilled")
                  => /\ Len(loads[r2]) >= 1
                     /\ loads[r2][1] = args[r2].fontFamily

C4_Witness ==
    \E r1, r2 \in Requests :
        /\ WaitFailed(r1) /\ Called(r2) /\ id[r2] = id[r1]
        /\ r1 \in settledBefore[r2]
        /\ id[r1] \notin DOMAIN instances
        /\ pc[r2] = "waitBlank"

\* C5: when a readiness wait fails, the call is rejected with the condition
\* the wait failed with and makes no probe measurement; the wait for the
\* requested family and the wait for the backup family are each made at
\* most once by a call.
C5_FailurePropagatesWithoutRetry ==
    \A r \in Requests :
        /\ raised[r] # ""
           => /\ pc[r] = "rejected"
              /\ error[r] = raised[r]
              /\ probes[r] = 0
              /\ result[r] = 0
              /\ r \notin DOMAIN heap
        /\ \/ loads[r] = <<>>
           \/ loads[r] = <<args[r].fontFamily>>
           \/ loads[r] = <<args[r].fontFamily, blankFontFamily>>

C5_Witness ==
    \E r \in Requests :
        /\ pc[r] = "rejected"
        /\ error[r] = "FontLoadTimeout"
        /\ loads[r] = <<args[r].fontFamily, blankFontFamily>>

\* C6: a completed cache entry is never removed and never replaced by
\* another Metrics object.
C6_EntriesNeverReplaced ==
    [][\A k \in DOMAIN instances :
           k \in DOMAIN instances' /\ instances'[k] = instances[k]]_vars

\* C7: the backup face rule is declared at most once per (weight, style)
\* pair in the page's style environment.
C7_OneRulePerWeightStyle ==
    \A i, j \in 1..Len(head) : head[i] = head[j] => i = j

\* C8: for every string, also one of width 0, the measureWidth calls on one
\* Metrics object all return the same value and measure the surface once.
C8_WidthMeasuredOnce ==
    \A p \in DOMAIN widthLog :
        /\ widthLog[p].surface = 1
        /\ Cardinality(widthLog[p].values) = 1

\* the anchor character the caller asked for, or the default one
ExpectedChar(options, key) ==
    IF HasOwn(Get(options, kChars), key)
    THEN Get(Get(options, kChars), key)
    ELSE Get(Get(defaultOptions, kChars), key)

ExpectedOuter(options, key) ==
    IF HasOwn(options, key) THEN Get(options, key) ELSE Get(defaultOptions, key)

\* C9: construction uses the defaults overridden per field: each outer field
\* and each of the six anchor characters is the caller's when supplied, the
\* default otherwise.
C9_OptionsMergedPerField ==
    \A ref \in DOMAIN heap :
        /\ heap[ref].fontSize = ExpectedOuter(args[ref].options, kFontSize)
        /\ heap[ref].ctx.textBaseline = ExpectedOuter(args[ref].options, kBaseline)
        /\ \A i \in 1..Len(AnchorKeys) :
               Get(heap[ref].chars, AnchorKeys[i])
                   = ExpectedChar(args[ref].options, AnchorKeys[i])

SameFont(r1, r2) ==
    /\ args[r1].fontFamily = args[r2].fontFamily
    /\ args[r1].fontWeight = args[r2].fontWeight
    /\ args[r1].fontStyle = args[r2].fontStyle

\* C10: two resolved calls with the same family, weight and style and
\* different options have different cache entries and different Metrics
\* objects, each built with the font size of its own options.
C10_OptionsSeparateEntries ==
    \A r1, r2 \in Requests :
        (/\ pc[r1] = "fulfilled" /\ pc[r2] = "fulfilled"
         /\ SameFont(r1, r2) /\ args[r1].options # args[r2].options)
        => /\ id[r1] # id[r2]
           /\ id[r1] \in DOMAIN instances /\ id[r2] \in DOMAIN instances
           /\ instances[id[r1]] # instances[id[r2]]
           /\ result[r1] # result[r2]
           /\ heap[result[r1]].fontSize = ExpectedOuter(args[r1].options, kFontSize)
           /\ heap[result[r2]].fontSize = ExpectedOuter(args[r2].options, kFontSize)
           /\ heap[result[r1]].ctx.size = heap[result[r1]].fontSize
           /\ heap[result[r2]].ctx.size = heap[result[r2]].fontSize

C10_Witness ==
    \E r1, r2 \in Requests :
        /\ pc[r1] = "fulfilled" /\ pc[r2] = "fulfilled"
        /\ SameFont(r1, r2)
        /\ heap[result[r1]].fontSize = Num(16)
        /\ heap[result[r2]].fontSize = Num(32)

\* the surface measurement an anchor metric is taken from
AnchorBox(key) ==
    IF key \in {kBaseline, kDescent} THEN kActualBoundingBoxDescent
    ELSE kActualBoundingBoxAscent

\* the anchor metric of a Metrics object
AnchorValue(m, key) ==
    CASE key = kCapHeight -> m.capHeight
      [] key = kBaseline -> m.baseline
      [] key = kXHeight -> m.xHeight
      [] key = kDescent -> m.descent
      [] key = kAscent -> m.ascent
      [] key = kTittle -> m.tittle

\* a raw measurement as a fraction of the font size, a falsy one unchanged
Normalized(raw, fontSize) == IF Falsy(raw) THEN raw ELSE Div(raw, fontSize)

\* C11: each of the six anchor metrics of a constructed instance is the raw
\* bounding-box measurement of its anchor character (ascent for capHeight,
\* xHeight, ascent, tittle; descent for baseline, descent) divided by the
\* fontSize, a raw value that is zero or otherwise falsy being reported
\* unchanged.
C11_AnchorsNormalized ==
    \A ref \in DOMAIN heap :
        \A i \in 1..Len(AnchorKeys) :
            LET m == heap[ref]
                key == AnchorKeys[i]
                raw == Get(measureText(m.ctx, Get(m.chars, key)), AnchorBox(key))
            IN  AnchorValue(m, key) = Normalized(raw, m.fontSize)

\* the four ligature names in the order of the claim, with their code points
ClaimedLigatures ==
    << [name |-> <<"f", "f">>, code |-> 64256],
       [name |-> <<"f", "i">>, code |-> 64257],
       [name |-> <<"f", "l">>, code |-> 64258],
       [name |-> <<"s", "t">>, code |-> 64262] >>

\* the character of a code point has a width on the surface
Wide(ctx, code) ==
    Gt(Get(measureText(ctx, Str(fromCharCode(code))), kWidth), Num(0))

\* the place of a ligature name in the order of the claim (0: not a name)
LigatureRank(name) ==
    IF \E i \in 1..Len(ClaimedLigatures) : ClaimedLigatures[i].name = name
    THEN CHOOSE i \in 1..Len(ClaimedLigatures) : ClaimedLigatures[i].name = name
    ELSE 0

\* C12: the ligatures field holds exactly the names among ff, fi, fl, st
\* whose character (64256, 64257, 64258, 64262) has a width greater than
\* zero, in the order ff, fi, fl, st, each once and no other name.
C12_LigaturesInFixedOrder ==
    \A ref \in DOMAIN heap :
        LET lig == heap[ref].ligatures
        IN  /\ \A j \in 1..Len(lig) : LigatureRank(lig[j]) > 0
            /\ \A j, k \in 1..Len(lig) :
                   j < k => LigatureRank(lig[j]) < LigatureRank(lig[k])
            /\ \A i \in 1..Len(ClaimedLigatures) :
                   Wide(heap[ref].ctx, ClaimedLigatures[i].code)
                   <=> \E j \in 1..Len(lig) : lig[j] = ClaimedLigatures[i].name

C12_Witness ==
    \E ref \in DOMAIN heap :
        /\ heap[ref].ctx.family = famL("0", "1", "0", "1")
        /\ heap[ref].ligatures = << <<"f", "i">>, <<"s", "t">> >>

\* the code points some font of the model has a glyph for
CoveredCodes ==
    {0, 72, 83, 88, 99, 100, 101, 102, 104, 105, 110, 111, 112, 114, 115, 116,
     117, 120, 64256, 64257, 64258, 64262, 65535}

\* the code point of a character some font of the model has a glyph for
\* (-1: not such a character)
charCodeAt(string) ==
    IF \E c \in CoveredCodes : Str(fromCharCode(c)) = string
    THEN CHOOSE c \in CoveredCodes : Str(fromCharCode(c)) = string
    ELSE 0 - 1

\* C13: getGlyphs returns exactly the one-character strings of the code
\* points in 0..65535, both ends included, whose width is greater than zero,
\* in ascending order of code point, each once; the empty array when every
\* probe has zero width.  (No font of the model has a glyph outside
\* CoveredCodes, so the code points to look for are those.)
C13_GlyphsOfTheScannedRange ==
    \A ref \in DOMAIN glyphLog :
        \A glyphs \in glyphLog[ref].results :
            /\ \A j \in 1..Len(glyphs) :
                   /\ charCodeAt(glyphs[j]) \in 0..65535
                   /\ Wide(heap[ref].ctx, charCodeAt(glyphs[j]))
            /\ \A j, k \in 1..Len(glyphs) :
                   j < k => charCodeAt(glyphs[j]) < charCodeAt(glyphs[k])
            /\ \A c \in CoveredCodes :
                   (c \in 0..65535 /\ Wide(heap[ref].ctx, c))
                   => \E j \in 1..Len(glyphs) : glyphs[j] = Str(fromCharCode(c))
            /\ (\A c \in CoveredCodes : ~Wide(heap[ref].ctx, c)) => glyphs = <<>>

C13_Witness ==
    \E ref \in DOMAIN glyphLog :
        \E glyphs \in glyphLog[ref].results :
            /\ Len(glyphs) > 2
            /\ glyphs[1] = Str(fromCharCode(0))
            /\ glyphs[Len(glyphs)] = Str(fromCharCode(65535))

\* C14: a call made as in the documented usage, with options: null, whose
\* two readiness waits succeed resolves to a Metrics object built from the
\* default options and stored in the instance cache.
C14_NullOptionsUseDefaults ==
    \A r \in Requests :
        (/\ args[r].options = Null
         /\ pc[r] \in {"fulfilled", "rejected"}
         /\ raised[r] = "")
        => /\ pc[r] = "fulfilled"
           /\ result[r] \in DOMAIN heap
           /\ heap[result[r]].fontSize = Get(defaultOptions, kFontSize)
           /\ heap[result[r]].chars = Get(defaultOptions, kChars)
           /\ id[r] \in DOMAIN instances

\* the first place of a step in the steps of a call (0: the step was not taken)
FirstStep(steps, names) ==
    IF \E j \in 1..Len(steps) : steps[j] \in names
    THEN CHOOSE j \in 1..Len(steps) :
             steps[j] \in names /\ \A k \in 1..(j - 1) : steps[k] \notin names
    ELSE 0

StepCount(steps, name) == Cardinality({j \in 1..Len(steps) : steps[j] = name})

ProbeSteps == {"measureTop", "measureBottom", "detectLigatures"}

\* C15: in every construction the backup face is registered first, then the
\* wait for the requested family and the wait for the backup family resolve,
\* then the surface is configured, once, and only then are probe
\* measurements made: none precedes the end of both waits or the
\* configuration of the surface.
C15_ProbesAfterWaitsAndSetFont ==
    \A r \in Requests :
        LET steps == events[r]
            inserted == FirstStep(steps, {"insertblankFont"})
            waiting == FirstStep(steps, {"waitFont", "waitBlank"})
            fontReady == FirstStep(steps, {"fontLoaded"})
            blankReady == FirstStep(steps, {"blankLoaded"})
            configured == FirstStep(steps, {"setFont"})
            probed == FirstStep(steps, ProbeSteps)
        IN  /\ waiting > 0 => (0 < inserted /\ inserted < waiting)
            /\ probed > 0 => /\ 0 < inserted /\ inserted < fontReady
                             /\ fontReady < blankReady /\ blankReady < configured
                             /\ configured < probed
            /\ StepCount(steps, "setFont") <= 1
            /\ (r \in DOMAIN heap \/ probes[r] > 0)
               => (probed > 0 /\ StepCount(steps, "setFont") = 1)

C15_Witness ==
    \E r \in Requests :
        /\ r \in DOMAIN heap
        /\ Len(events[r]) > 0
        /\ events[r][Len(events[r])] = "detectLigatures"

\* C16: a call whose identity key has a completed cache entry returns that
\* entry and changes nothing else: no backup face is registered (registry
\* and style elements unchanged), no readiness wait is made, no surface is
\* created, no probe measurement is made, the instance cache is unchanged.
C16_CacheHitChangesNothing ==
    [][\A r \in Requests :
           (pc[r] = "idle" /\ pc'[r] # "idle" /\ id'[r] \in DOMAIN instances)
           => /\ pc'[r] = "fulfilled"
              /\ result'[r] = instances[id'[r]]
              /\ loads'[r] = <<>>
              /\ events'[r] = <<>>
              /\ UNCHANGED <<instances, insertedBlankFonts, head, heap, probes,
                             loads, events>>]_vars

C16_Witness ==
    \E r \in Requests :
        /\ pc[r] = "fulfilled"
        /\ loads[r] = <<>>
        /\ result[r] \in DOMAIN heap
        /\ result[r] # r

\* C17: construction never runs the glyph scan; the scan runs when getGlyphs
\* is called, and every getGlyphs call runs a full new scan.
C17_GlyphScanOnEveryCall ==
    /\ \A ref \in DOMAIN heap :
           /\ GlyphLogOf(ref).scans = GlyphLogOf(ref).calls
           /\ GlyphLogOf(ref).calls > 0 <=> GlyphLogOf(ref).results # {}
    /\ \A ref \in DOMAIN glyphLog : ref \in DOMAIN heap

C17_Witness ==
    \E ref \in DOMAIN heap :
        /\ GlyphLogOf(ref).calls = 2
        /\ GlyphLogOf(ref).scans = 2

\* C18: measureText(s) returns a mapping with exactly the fields of the
\* surface's raw measurement of s, each holding the raw value divided by the
\* fontSize of the instance when the raw value is truthy, and the raw value
\* itself when it is zero or otherwise falsy.
C18_MeasureTextNormalized ==
    \A j \in 1..Len(textLog) :
        LET m == heap[textLog[j].ref]
            raw == measureText(m.ctx, textLog[j].string)
            returned == textLog[j].returned
        IN  /\ returned.t = "object"
            /\ Len(returned.o) = Len(raw.o)
            /\ \A i \in 1..Len(raw.o) :
                   /\ HasOwn(returned, raw.o[i].k)
                   /\ Get(returned, raw.o[i].k) = Normalized(raw.o[i].v, m.fontSize)

C18_Witness ==
    \E j \in 1..Len(textLog) :
        LET raw == measureText(heap[textLog[j].ref].ctx, textLog[j].string)
        IN  /\ heap[textLog[j].ref].fontSize = Num(32)
            /\ ~Falsy(Get(raw, kWidth))
            /\ HasOwn(raw, kActualBoundingBoxDescent)
            /\ Falsy(Get(raw, kActualBoundingBoxDescent))

\* C19: the identity key is injective over (family, weight, style): two
\* calls with equal options that differ in family, weight or style have
\* different keys, and neither resolves to the Metrics object of the other.
C19_KeyInjectiveOverFont ==
    \A r1, r2 \in Requests :
        (/\ Called(r1) /\ Called(r2)
         /\ args[r1].options = args[r2].options
         /\ ~SameFont(r1, r2))
        => /\ id[r1] # id[r2]
           /\ (pc[r1] = "fulfilled" /\ pc[r2] = "fulfilled") => result[r1] # result[r2]

\* C20: every measureWidth(s) call on a Metrics object returns the width of
\* s on the surface of that object divided by its fontSize, whatever
\* measureWidth calls were made before.
C20_WidthOfTheStringItself ==
    \A p \in DOMAIN widthLog :
        widthLog[p].values =
            { Div(Get(measureText(heap[p[1]].ctx, p[2]), kWidth), heap[p[1]].fontSize) }

====
